---- MODULE Spec2Model ----
(***************************************************************************)
(* Model of the BLE MIDI bridge (src/ble_midi_client.py).                  *)
(*                                                                         *)
(* BleMidiBridge.run is a coroutine: it executes atomically between two    *)
(* awaits, so pc names the await the coroutine is suspended at and every   *)
(* run action is "the awaited call returns, run up to the next await".     *)
(* stop() is an ordinary method called in the event loop while run is      *)
(* suspended; the disconnect it schedules with create_task is a second     *)
(* task that completes at an arbitrary later moment.                       *)
(*                                                                         *)
(* midi_data_handler and process_midi_message are pure in the payload;     *)
(* they are operators, exercised by the specification MidiSpec.            *)
(***************************************************************************)
EXTENDS Integers, Sequences, FiniteSets, TLC

(* ---- bounds of the model ---------------------------------------------- *)
MaxCycles == 3      \* connect cycles the run loop may start
MaxStops == 2       \* stop() calls (stop is idempotent, so it may repeat)
MaxChunkLen == 4    \* bytes in one byte stream fed to the handler
MaxThreads == 3     \* bridge threads the window may start

(* ---- program constants ------------------------------------------------ *)
MaxScanAttempts == 3

VARIABLES
    (* BleMidiBridge fields *)
    should_reconnect, auto_reconnect, is_connected, client, midi_port_name,
    (* the run coroutine *)
    pc, attempt, device,
    (* transport: BleakClient objects that are connected / subscribed *)
    connected, subscribed,
    (* the task created by stop(): 0, or the client it disconnects *)
    discTask,
    (* MidiPortManager: current_port (0 is None), ports of the backend that
       are open, whether the configured name is in output_ports *)
    current_port, openPorts, nextPort, portKnown,
    (* observations *)
    stepStatus, stopCalls, stopPc, stopLive, disconnectCalls,
    cycle, scans, connects, outcome, gap, backoffCount, reportedBackoffs,
    fails,
    (* the payload pipeline (MidiSpec) *)
    input, cut, fed, chunk, emitted, sinkLog, activityLog, writeFailed,
    (* MainWindow (GuiSpec): is_running, the text of the device and port
       fields (TRUE is non-empty), the bridge threads started so far, the
       on_bridge_stopped calls queued for the window *)
    is_running, device_text, midi_port_text, threads, stoppedQueue

bridgeVars == <<should_reconnect, auto_reconnect, is_connected, client,
                midi_port_name>>
portVars == <<current_port, openPorts, nextPort, portKnown>>
histVars == <<cycle, scans, connects, outcome, gap, backoffCount,
              reportedBackoffs, fails>>
midiVars == <<input, cut, fed, chunk, emitted, sinkLog, activityLog,
              writeFailed>>
guiVars == <<is_running, device_text, midi_port_text, threads, stoppedQueue>>
vars == <<should_reconnect, auto_reconnect, is_connected, client,
          midi_port_name, pc, attempt, device, connected, subscribed,
          discTask, current_port, openPorts, nextPort, portKnown,
          stepStatus, stopCalls, stopPc, stopLive, disconnectCalls,
          cycle, scans, connects, outcome, gap, backoffCount,
          reportedBackoffs, fails, input, cut, fed, chunk, emitted, sinkLog,
          activityLog, writeFailed, is_running, device_text, midi_port_text,
          threads, stoppedQueue>>

(* ---- status texts ------------------------------------------------------ *)
St(m) == [msg |-> m, n |-> 0]
ScanMsg(k) == [msg |-> "scanning", n |-> k]

FailureKinds == {"not_found", "connect_failed", "subscribe_failed", "dropped"}
IsBackoff(p) == p \in {"BackoffRetry", "BackoffReconnect"}

(***************************************************************************)
(* The payload pipeline.                                                   *)
(***************************************************************************)
ByteSet == {5, 127, 128, 144, 181, 239, 240}

IsStatusByte(b) == b >= 128 /\ b <= 239

RECURSIVE ScanBytes_NoFlush(_, _, _, _)
ScanBytes_NoFlush(data, i, midi_data, out) ==
    IF i > Len(data)
    THEN out
    ELSE LET byte == data[i] IN
         IF IsStatusByte(byte)
         THEN ScanBytes_NoFlush(data, i + 1, <<byte>>,
                        IF midi_data # <<>> THEN Append(out, midi_data) ELSE out)
         ELSE IF midi_data # <<>> /\ byte < 128
              THEN ScanBytes_NoFlush(data, i + 1, Append(midi_data, byte), out)
              ELSE ScanBytes_NoFlush(data, i + 1, midi_data, out)

\* the for loop of midi_data_handler and the flush after it: the messages
\* handed to process_midi_message, in order
RECURSIVE ScanBytes(_, _, _, _)
ScanBytes(data, i, midi_data, out) ==
    IF i > Len(data)
    THEN IF midi_data # <<>> THEN Append(out, midi_data) ELSE out
    ELSE LET byte == data[i] IN
         IF IsStatusByte(byte)
         THEN ScanBytes(data, i + 1, <<byte>>,
                        IF midi_data # <<>> THEN Append(out, midi_data) ELSE out)
         ELSE IF midi_data # <<>> /\ byte < 128
              THEN ScanBytes(data, i + 1, Append(midi_data, byte), out)
              ELSE ScanBytes(data, i + 1, midi_data, out)

midi_data_handler_Min4(data) ==
    IF Len(data) < 4 THEN <<>> ELSE ScanBytes(data, 1, <<>>, <<>>)

midi_data_handler(data) ==
    IF Len(data) < 3 THEN <<>> ELSE ScanBytes(data, 1, <<>>, <<>>)

\* data[0] & 0xF0
MessageType(data) == (data[1] \div 16) * 16

\* mido.Message: pitchwheel accepts -8192..8191 and raises ValueError
\* otherwise; the 7-bit fields are always in range here
PitchValue(data) == data[3] * 128 + data[2]

\* Message('pitchwheel', pitch=value) is constructed (does not raise)
PitchAccepted(value) == value <= 8191

\* the messages process_midi_message sends to the sink for one delimited
\* message (none when no branch applies or Message() raises)
process_midi_message(data) ==
    IF Len(data) >= 1
    THEN LET message_type == MessageType(data) IN
         IF message_type = 128 /\ Len(data) >= 3
         THEN <<[type |-> "note_off", note |-> data[2], velocity |-> data[3]]>>
         ELSE IF message_type = 144 /\ Len(data) >= 3
         THEN <<[type |-> "note_on", note |-> data[2], velocity |-> data[3]]>>
         ELSE IF message_type = 176 /\ Len(data) >= 3
         THEN <<[type |-> "control_change", control |-> data[2], value |-> data[3]]>>
         ELSE IF message_type = 224 /\ Len(data) >= 3
         THEN IF PitchAccepted(PitchValue(data))
              THEN <<[type |-> "pitchwheel", pitch |-> PitchValue(data)]>>
              ELSE <<>>
         ELSE <<>>
    ELSE <<>>

RECURSIVE ProcessAll(_)
ProcessAll(msgs) ==
    IF msgs = <<>> THEN <<>>
    ELSE process_midi_message(Head(msgs)) \o ProcessAll(Tail(msgs))

\* the text process_midi_message hands to update_activity after sending msg
ActivityText(msg) ==
    IF msg.type = "note_off"
    THEN [text |-> "Note Off", args |-> <<msg.note>>]
    ELSE IF msg.type = "note_on"
    THEN IF msg.velocity > 0
         THEN [text |-> "Note On", args |-> <<msg.note, msg.velocity>>]
         ELSE [text |-> "Note Off", args |-> <<msg.note>>]
    ELSE IF msg.type = "control_change"
    THEN [text |-> "Control", args |-> <<msg.control, msg.value>>]
    ELSE [text |-> "Pitch", args |-> <<msg.pitch>>]

\* update_activity is called for every message that was constructed,
\* whatever send_message returned
Activities(msgs) == [i \in 1..Len(msgs) |-> ActivityText(msgs[i])]

\* MidiPortManager.send_message over the messages of one payload: what the
\* port receives when the sends at the indices in failing raise
RECURSIVE Written_AbortOnFailure(_, _, _)
Written_AbortOnFailure(msgs, failing, i) ==
    IF i > Len(msgs) \/ i \in failing THEN <<>>
    ELSE <<msgs[i]>> \o Written_AbortOnFailure(msgs, failing, i + 1)

RECURSIVE Written(_, _, _)
Written(msgs, failing, i) ==
    IF i > Len(msgs) THEN <<>>
    ELSE (IF i \in failing THEN <<>> ELSE <<msgs[i]>>)
         \o Written(msgs, failing, i + 1)

\* send_message: current_port is set, and send() on a closed port raises
send_message(msgs, failing) ==
    IF current_port # 0 /\ current_port \in openPorts
    THEN Written(msgs, failing, 1)
    ELSE <<>>

(***************************************************************************)
(* The run loop.                                                           *)
(***************************************************************************)
Outcomes == FailureKinds \cup {"none", "running", "closed", "error"}

\* the coroutine suspends at await p after reporting sts; o is the outcome of
\* the current cycle so far and d whether a matching device is held.  A cycle
\* starts with the first scan of connect_to_device.
Suspend(p, sts, a, o, d) ==
    LET newCycle == p = "Scanning" /\ a = 0 IN
    /\ pc' = p
    /\ stepStatus' = sts
    /\ attempt' = a
    /\ device' = d
    /\ cycle' = IF newCycle THEN cycle + 1 ELSE cycle
    /\ scans' = IF newCycle THEN 1 ELSE IF p = "Scanning" THEN scans + 1 ELSE scans
    /\ connects' = IF newCycle THEN 0
                   ELSE IF p = "Connecting" THEN connects + 1 ELSE connects
    /\ outcome' = IF newCycle THEN "running" ELSE o
    /\ gap' = IF newCycle THEN 0 ELSE IF IsBackoff(p) THEN gap + 1 ELSE gap
    /\ backoffCount' = IF IsBackoff(p) THEN backoffCount + 1 ELSE backoffCount
    /\ reportedBackoffs' = IF IsBackoff(p) /\ sts # <<>>
                           THEN reportedBackoffs + 1 ELSE reportedBackoffs
    /\ fails' = IF o # outcome /\ o \in FailureKinds
                THEN [fails EXCEPT ![o] = @ + 1] ELSE fails

\* line 194, and the entry of connect_to_device up to the first discover
RunWhile(sts, o) ==
    IF should_reconnect
    THEN /\ cycle < MaxCycles
         /\ Suspend("Scanning", Append(sts, ScanMsg(1)), 0, o, FALSE)
    ELSE Suspend("Stopped", sts, attempt, o, device)

\* lines 197-201: connect_to_device returned None
NoClient_NoDelay(sts, o) == RunWhile(sts, o)

NoClient(sts, o) ==
    IF auto_reconnect
    THEN Suspend("BackoffRetry", Append(sts, St("retry_in")), attempt, o, device)
    ELSE RunWhile(sts, o)

\* lines 223-225: the end of the loop body
AfterCycle(sts, o) ==
    IF should_reconnect /\ auto_reconnect
    THEN Suspend("BackoffReconnect", Append(sts, St("reconnect_in")),
                 attempt, o, device)
    ELSE RunWhile(sts, o)

\* lines 218-221: an exception of the loop body
RunExcept_Propagate(sts, o) ==
    /\ UNCHANGED is_connected
    /\ Suspend("Stopped", sts, attempt, o, device)

RunExcept(sts, o) ==
    /\ is_connected' = FALSE
    /\ AfterCycle(Append(sts, St("error")), o)

\* lines 208-216: the keep-alive loop and the teardown after it
KeepAlive_IgnoreStop(sts, o) ==
    IF client \in connected
    THEN /\ Suspend("Streaming", sts, attempt, o, device)
         /\ UNCHANGED is_connected
    ELSE /\ is_connected' = FALSE
         /\ AfterCycle(Append(sts, St("disconnected")),
                       IF should_reconnect THEN "dropped" ELSE "closed")

KeepAlive(sts, o) ==
    IF should_reconnect /\ client \in connected
    THEN /\ Suspend("Streaming", sts, attempt, o, device)
         /\ UNCHANGED is_connected
    ELSE IF client \in connected
         THEN /\ Suspend("Unsubscribing", sts, attempt, o, device)
              /\ UNCHANGED is_connected
         ELSE /\ is_connected' = FALSE
              /\ AfterCycle(Append(sts, St("disconnected")),
                            IF should_reconnect THEN "dropped" ELSE "closed")

\* line 201: continue after the retry delay
AfterRetryDelay_FallThrough(sts, o) == AfterCycle(sts, o)

AfterRetryDelay(sts, o) == RunWhile(sts, o)

\* MidiPortManager.open_port: the port fields after the call and its result;
\* raises tells whether mido.open_output raises
open_port(raises) ==
    LET closed == IF current_port # 0 THEN openPorts \ {current_port}
                  ELSE openPorts IN
    IF portKnown /\ ~raises
    THEN [cur |-> nextPort, open |-> closed \cup {nextPort},
          next |-> nextPort + 1, ok |-> TRUE]
    ELSE [cur |-> current_port, open |-> closed, next |-> nextPort, ok |-> FALSE]

\* lines 126-130: the result of open_port is reported and the client is
\* returned to run(), which awaits start_notify
AfterOpenPort_Abort(ok) ==
    IF ok
    THEN Suspend("Subscribing", <<St("connected")>>, attempt, outcome, device)
    ELSE NoClient(<<St("connected"), St("port_fail")>>, "connect_failed")

AfterOpenPort(ok) ==
    Suspend("Subscribing",
            IF ok THEN <<St("connected")>>
            ELSE <<St("connected"), St("port_fail")>>,
            attempt, outcome, device)

\* lines 119-121: a device is held, create the client and connect
BeginConnect(sts) ==
    /\ client' = cycle
    /\ Suspend("Connecting", sts, attempt, outcome, TRUE)

\* lines 111-113: leave the scan loop with a device, pause without one
AfterScan_NoBreak(found, sts) ==
    /\ Suspend("ScanPause", sts, attempt, outcome, found)
    /\ UNCHANGED client

AfterScan(found, sts) ==
    IF found
    THEN BeginConnect(sts)
    ELSE /\ Suspend("ScanPause", sts, attempt, outcome, FALSE)
         /\ UNCHANGED client

\* lines 115-121: after the scan loop
AfterScanLoop(sts) ==
    IF ~device
    THEN /\ NoClient(Append(sts, St("not_found")), "not_found")
         /\ UNCHANGED client
    ELSE BeginConnect(sts)

Init ==
    /\ should_reconnect = TRUE
    /\ auto_reconnect \in BOOLEAN
    /\ is_connected = FALSE
    /\ client = 0
    /\ midi_port_name \in BOOLEAN
    /\ pc = "Idle" /\ attempt = 0 /\ device = FALSE
    /\ connected = {} /\ subscribed = {} /\ discTask = 0
    /\ current_port = 0 /\ openPorts = {} /\ nextPort = 1
    /\ portKnown \in BOOLEAN
    /\ stepStatus = <<>> /\ stopCalls = 0 /\ stopPc = "none" /\ stopLive = FALSE
    /\ disconnectCalls = 0
    /\ cycle = 0 /\ scans = 0 /\ connects = 0
    /\ outcome = "none"
    /\ gap = 0 /\ backoffCount = 0 /\ reportedBackoffs = 0
    /\ fails = [k \in FailureKinds |-> 0]
    /\ input = <<>> /\ cut = 0 /\ fed = 0
    /\ chunk = <<>> /\ emitted = <<>> /\ sinkLog = <<>>
    /\ activityLog = <<>> /\ writeFailed = {}
    /\ is_running = FALSE /\ device_text = TRUE /\ midi_port_text = TRUE
    /\ threads = <<>> /\ stoppedQueue = 0

configVars == <<should_reconnect, auto_reconnect, midi_port_name, portKnown>>
stopVars == <<stopCalls, stopPc, stopLive, discTask>>

\* run() is started
RunStart ==
    /\ pc = "Idle"
    /\ RunWhile(<<>>, "none")
    /\ UNCHANGED <<configVars, stopVars, is_connected, client, connected,
                   subscribed, current_port, openPorts, nextPort,
                   disconnectCalls, midiVars, guiVars>>

\* BleakScanner.discover returns (lines 101-113)
ScanReturn ==
    /\ pc = "Scanning"
    /\ \E res \in {"found", "none", "error"} :
          AfterScan(res = "found",
                    IF res = "found" THEN <<St("found")>>
                    ELSE IF res = "error" THEN <<St("scan_error")>> ELSE <<>>)
    /\ UNCHANGED <<configVars, stopVars, is_connected, connected,
                   subscribed, current_port, openPorts, nextPort,
                   disconnectCalls, midiVars, guiVars>>

\* asyncio.sleep(2) returns (lines 113, 97-98, 115-121)
ScanPauseReturn ==
    /\ pc = "ScanPause"
    /\ IF attempt + 1 < MaxScanAttempts
       THEN /\ Suspend("Scanning", <<ScanMsg(attempt + 2)>>, attempt + 1,
                       outcome, device)
            /\ UNCHANGED client
       ELSE AfterScanLoop(<<>>)
    /\ UNCHANGED <<configVars, stopVars, is_connected, connected,
                   subscribed, current_port, openPorts, nextPort,
                   disconnectCalls, midiVars, guiVars>>

\* client.connect() returns or raises (lines 121-133, 197-204)
ConnectReturn ==
    /\ pc = "Connecting"
    /\ \E ok \in BOOLEAN, raises \in BOOLEAN :
          IF ok
          THEN LET r == open_port(raises) IN
               /\ connected' = connected \cup {client}
               /\ is_connected' = TRUE
               /\ IF midi_port_name
                  THEN /\ current_port' = r.cur
                       /\ openPorts' = r.open
                       /\ nextPort' = r.next
                       /\ AfterOpenPort(r.ok)
                  ELSE /\ ~raises
                       /\ UNCHANGED <<current_port, openPorts, nextPort>>
                       /\ Suspend("Subscribing", <<St("connected")>>,
                                  attempt, outcome, device)
          ELSE /\ ~raises
               /\ NoClient(<<St("connect_failed")>>, "connect_failed")
               /\ UNCHANGED <<connected, is_connected, current_port,
                              openPorts, nextPort>>
    /\ UNCHANGED <<configVars, stopVars, client, subscribed,
                   disconnectCalls, midiVars, guiVars>>

\* client.start_notify returns or raises (lines 204-225)
SubscribeReturn ==
    /\ pc = "Subscribing"
    /\ \E ok \in BOOLEAN :
          IF ok
          THEN /\ client \in connected
               /\ subscribed' = subscribed \cup {client}
               /\ KeepAlive(<<St("streaming_started")>>, outcome)
          ELSE /\ UNCHANGED subscribed
               /\ RunExcept(<<>>, "subscribe_failed")
    /\ UNCHANGED <<configVars, stopVars, client, connected, current_port,
                   openPorts, nextPort, disconnectCalls, midiVars, guiVars>>

\* asyncio.sleep(1) returns (lines 208-225)
StreamingWake ==
    /\ pc = "Streaming"
    /\ KeepAlive(<<>>, outcome)
    /\ UNCHANGED <<configVars, stopVars, client, connected, subscribed,
                   current_port, openPorts, nextPort, disconnectCalls,
                   midiVars, guiVars>>

\* client.stop_notify returns or raises (lines 212-213)
UnsubscribeReturn ==
    /\ pc = "Unsubscribing"
    /\ \E ok \in BOOLEAN :
          IF ok
          THEN /\ subscribed' = subscribed \ {client}
               /\ disconnectCalls' = disconnectCalls + 1
               /\ Suspend("Disconnecting", <<>>, attempt, outcome, device)
               /\ UNCHANGED is_connected
          ELSE /\ UNCHANGED <<subscribed, disconnectCalls>>
               /\ RunExcept(<<>>, "error")
    /\ UNCHANGED <<configVars, stopVars, client, connected, current_port,
                   openPorts, nextPort, midiVars, guiVars>>

\* client.disconnect() returns or raises (lines 213-225)
DisconnectReturn ==
    /\ pc = "Disconnecting"
    /\ \E ok \in BOOLEAN :
          IF ok
          THEN /\ connected' = connected \ {client}
               /\ subscribed' = subscribed \ {client}
               /\ is_connected' = FALSE
               /\ AfterCycle(<<St("disconnected")>>, "closed")
          ELSE /\ UNCHANGED <<connected, subscribed>>
               /\ RunExcept(<<>>, "error")
    /\ UNCHANGED <<configVars, stopVars, client, current_port, openPorts,
                   nextPort, disconnectCalls, midiVars, guiVars>>

\* asyncio.sleep(scan_interval) of line 200 returns
BackoffRetryReturn ==
    /\ pc = "BackoffRetry"
    /\ AfterRetryDelay(<<>>, outcome)
    /\ UNCHANGED <<configVars, stopVars, is_connected, client, connected,
                   subscribed, current_port, openPorts, nextPort,
                   disconnectCalls, midiVars, guiVars>>

\* asyncio.sleep(scan_interval) of line 225 returns
BackoffReconnectReturn ==
    /\ pc = "BackoffReconnect"
    /\ RunWhile(<<>>, outcome)
    /\ UNCHANGED <<configVars, stopVars, is_connected, client, connected,
                   subscribed, current_port, openPorts, nextPort,
                   disconnectCalls, midiVars, guiVars>>

\* BleMidiBridge.stop, called while run is suspended
Stop ==
    /\ pc \notin {"Idle", "Stopped"}
    /\ stopCalls < MaxStops
    /\ should_reconnect' = FALSE
    /\ IF client # 0 /\ client \in connected
       THEN /\ discTask' = client
            /\ disconnectCalls' = disconnectCalls + 1
       ELSE UNCHANGED <<discTask, disconnectCalls>>
    /\ IF current_port # 0
       THEN /\ openPorts' = openPorts \ {current_port}
            /\ current_port' = 0
       ELSE UNCHANGED <<current_port, openPorts>>
    /\ stopCalls' = stopCalls + 1
    /\ stopPc' = IF stopCalls = 0 THEN pc ELSE stopPc
    /\ stopLive' = IF stopCalls = 0 THEN client \in connected ELSE stopLive
    /\ UNCHANGED <<auto_reconnect, midi_port_name, portKnown, is_connected,
                   client, pc, attempt, device, connected, subscribed,
                   nextPort, stepStatus, histVars, midiVars, guiVars>>

\* the disconnect scheduled by stop() completes; the event loop is closed
\* once run() has returned, so it cannot complete afterwards
DisconnectTaskDone ==
    /\ discTask # 0
    /\ pc # "Stopped"
    /\ connected' = connected \ {discTask}
    /\ subscribed' = subscribed \ {discTask}
    /\ discTask' = 0
    /\ UNCHANGED <<bridgeVars, pc, attempt, device, portVars, stepStatus,
                   stopCalls, stopPc, stopLive, disconnectCalls, histVars,
                   midiVars, guiVars>>

\* the radio link of a connected client is lost
TransportDrop ==
    /\ \E c \in connected :
          /\ connected' = connected \ {c}
          /\ subscribed' = subscribed \ {c}
    /\ UNCHANGED <<bridgeVars, pc, attempt, device, discTask, portVars,
                   stepStatus, stopCalls, stopPc, stopLive, disconnectCalls,
                   histVars, midiVars, guiVars>>

Next ==
    \/ RunStart
    \/ ScanReturn
    \/ ScanPauseReturn
    \/ ConnectReturn
    \/ SubscribeReturn
    \/ StreamingWake
    \/ UnsubscribeReturn
    \/ DisconnectReturn
    \/ BackoffRetryReturn
    \/ BackoffReconnectReturn
    \/ Stop
    \/ DisconnectTaskDone
    \/ TransportDrop

Spec == Init /\ [][Next]_vars

(***************************************************************************)
(* The payload pipeline as a state machine: a byte stream is delivered by  *)
(* the transport as one payload (cut = Len(input)) or as two consecutive   *)
(* payloads input[1..cut] and input[cut+1..], each handled by one call of  *)
(* midi_data_handler; sinkLog is what reached MidiPortManager.send_message.*)
(***************************************************************************)
Inputs == UNION {[1..n -> ByteSet] : n \in 0..MaxChunkLen}

\* every pitch bend message of channel 0
PitchInputs == {<<224, lsb, msb>> : lsb \in 0..127, msb \in 0..127}

MidiInit ==
    /\ should_reconnect = TRUE /\ auto_reconnect = TRUE
    /\ is_connected = TRUE /\ client = 1 /\ midi_port_name = TRUE
    /\ pc = "Streaming" /\ attempt = 0 /\ device = TRUE
    /\ connected = {1} /\ subscribed = {1} /\ discTask = 0
    /\ current_port = 1 /\ openPorts = {1} /\ nextPort = 2
    /\ portKnown = TRUE
    /\ stepStatus = <<>> /\ stopCalls = 0 /\ stopPc = "none" /\ stopLive = FALSE
    /\ disconnectCalls = 0
    /\ cycle = 1 /\ scans = 1 /\ connects = 1
    /\ outcome = "running"
    /\ gap = 0 /\ backoffCount = 0 /\ reportedBackoffs = 0
    /\ fails = [k \in FailureKinds |-> 0]
    /\ input \in Inputs \cup PitchInputs
    /\ cut \in IF input \in PitchInputs THEN {Len(input)} ELSE 0..Len(input)
    /\ fed = 0
    /\ chunk = <<>> /\ emitted = <<>> /\ sinkLog = <<>>
    /\ activityLog = <<>> /\ writeFailed = {}
    /\ is_running = FALSE /\ device_text = TRUE /\ midi_port_text = TRUE
    /\ threads = <<>> /\ stoppedQueue = 0

\* one notification: midi_data_handler(sender, data)
Notify(data) ==
    /\ client \in subscribed
    /\ chunk' = data
    /\ emitted' = midi_data_handler(data)
    /\ sinkLog' = sinkLog \o send_message(ProcessAll(midi_data_handler(data)), {})
    /\ activityLog' = activityLog
                         \o Activities(ProcessAll(midi_data_handler(data)))
    /\ fed' = fed + 1
    /\ UNCHANGED <<input, cut, writeFailed>>
    /\ UNCHANGED <<bridgeVars, pc, attempt, device, connected, subscribed,
                   discTask, portVars, stepStatus, stopCalls, stopPc,
                   stopLive, disconnectCalls, histVars, guiVars>>

NotifyFirst ==
    /\ fed = 0
    /\ Notify(SubSeq(input, 1, cut))

NotifyRest ==
    /\ fed = 1
    /\ cut < Len(input)
    /\ Notify(SubSeq(input, cut + 1, Len(input)))

MidiNext ==
    \/ NotifyFirst
    \/ NotifyRest

MidiSpec == MidiInit /\ [][MidiNext]_vars

(***************************************************************************)
(* The run loop together with the notifications of the transport: while a *)
(* client is subscribed, the transport calls midi_data_handler between two *)
(* steps of run().  chunk, emitted, sinkLog, activityLog and writeFailed   *)
(* describe the last notification only.                                    *)
(***************************************************************************)
\* a payload of two messages
StreamPayloads == {<<144, 5, 127, 128, 5, 127>>}

midiObs == <<chunk, emitted, sinkLog, activityLog, writeFailed>>

\* midi_data_handler(sender, data) is called; the sends at the indices in
\* failing raise inside send_message
Notification ==
    /\ pc # "Stopped"
    /\ subscribed # {}
    /\ \E data \in StreamPayloads :
       \E failing \in IF current_port # 0 /\ current_port \in openPorts
                      THEN {{}, {1}} ELSE {{}} :
          LET msgs == ProcessAll(midi_data_handler(data)) IN
          /\ chunk' = data
          /\ emitted' = midi_data_handler(data)
          /\ sinkLog' = send_message(msgs, failing)
          /\ activityLog' = Activities(msgs)
          /\ writeFailed' = failing
    /\ UNCHANGED <<input, cut, fed>>
    /\ UNCHANGED <<bridgeVars, pc, attempt, device, connected, subscribed,
                   discTask, portVars, stepStatus, stopCalls, stopPc,
                   stopLive, disconnectCalls, histVars, guiVars>>

StreamNext ==
    \/ Next
    \/ Notification

StreamSpec == Init /\ [][StreamNext]_vars

(* ---- the window: src/main_app.py ---------------------------------------- *)
\* what the bridge of one thread reads and writes; no method of MainWindow
\* reaches it, the bridge is a local of start_ble_midi_bridge
bleVars == <<bridgeVars, pc, attempt, device, connected, subscribed,
             discTask, portVars, stepStatus, stopCalls, stopPc, stopLive,
             disconnectCalls, histVars, midiVars>>

\* the bridge threads whose run() is executing
ActiveRunLoops == {i \in 1..Len(threads) : threads[i] = "Running"}

\* the window as start_ble_midi_bridge configures its bridges
GuiInit ==
    /\ Init
    /\ auto_reconnect = TRUE /\ midi_port_name = TRUE /\ portKnown = TRUE

\* the user edits the device name or selects another port
EditInputs ==
    /\ \E d \in BOOLEAN, p \in BOOLEAN :
          /\ <<d, p>> # <<device_text, midi_port_text>>
          /\ device_text' = d /\ midi_port_text' = p
    /\ UNCHANGED <<is_running, threads, stoppedQueue, bleVars>>

\* start_bridge (lines 232-276): returns when is_running is set or a field
\* is empty, else sets is_running and starts a new daemon thread
start_bridge ==
    /\ ~is_running
    /\ device_text /\ midi_port_text
    /\ Len(threads) < MaxThreads
    /\ is_running' = TRUE
    /\ threads' = Append(threads, "Starting")
    /\ UNCHANGED <<device_text, midi_port_text, stoppedQueue, bleVars>>

\* stop_bridge (lines 278-283), the stop button is enabled while is_running:
\* only the flag and the buttons change, the bridge is not told to stop
stop_bridge ==
    /\ is_running
    /\ is_running' = FALSE
    /\ UNCHANGED <<device_text, midi_port_text, threads, stoppedQueue,
                   bleVars>>

\* run_bridge, start_ble_midi_bridge: the bridge is constructed and run()
\* begins; run() returns only when should_reconnect is cleared (RunWhile),
\* which only stop() does, and stop() has no caller
ThreadEntersRun(i) ==
    /\ threads[i] = "Starting"
    /\ threads' = [threads EXCEPT ![i] = "Running"]
    /\ UNCHANGED <<is_running, device_text, midi_port_text, stoppedQueue,
                   bleVars>>

\* run_bridge, lines 266-271: the constructor raised (mido.get_output_names
\* in refresh_ports), the thread ends; the single-shot timer set up from the
\* thread may or may not be delivered to the window
ThreadFails(i) ==
    /\ threads[i] = "Starting"
    /\ threads' = [threads EXCEPT ![i] = "Finished"]
    /\ stoppedQueue' \in {stoppedQueue, stoppedQueue + 1}
    /\ UNCHANGED <<is_running, device_text, midi_port_text, bleVars>>

\* on_bridge_stopped (lines 285-290)
on_bridge_stopped ==
    /\ stoppedQueue > 0
    /\ stoppedQueue' = stoppedQueue - 1
    /\ is_running' = FALSE
    /\ UNCHANGED <<device_text, midi_port_text, threads, bleVars>>

GuiNext ==
    \/ EditInputs
    \/ start_bridge
    \/ stop_bridge
    \/ \E i \in 1..Len(threads) : ThreadEntersRun(i)
    \/ \E i \in 1..Len(threads) : ThreadFails(i)
    \/ on_bridge_stopped

GuiSpec == GuiInit /\ [][GuiNext]_vars

\* every awaited call of the run coroutine returns
FairSpec ==
    /\ Spec
    /\ WF_vars(RunStart) /\ WF_vars(ScanReturn) /\ WF_vars(ScanPauseReturn)
    /\ WF_vars(ConnectReturn) /\ WF_vars(SubscribeReturn)
    /\ WF_vars(StreamingWake) /\ WF_vars(UnsubscribeReturn)
    /\ WF_vars(DisconnectReturn) /\ WF_vars(BackoffRetryReturn)
    /\ WF_vars(BackoffReconnectReturn)

(***************************************************************************)
(* Properties.                                                             *)
(***************************************************************************)
StopRequested == stopCalls > 0
Failures == fails["not_found"] + fails["connect_failed"]
            + fails["subscribe_failed"] + fails["dropped"]

\* C1: once stop() has been called, in whichever phase, the run loop
\* eventually terminates, given that every awaited call returns (FairSpec).
C1_StopTerminates == StopRequested ~> (pc = "Stopped")

\* a stop() that arrived during the keep-alive sleep has ended the loop
C1_Witness == pc = "Stopped" /\ stopPc = "Streaming" /\ stopLive

\* C2: whenever the run loop has terminated after a stop request, the
\* client is disconnected and no MIDI output port is open.  (A client whose
\* disconnect, scheduled by stop(), is still in flight counts as
\* disconnected.)
C2_StoppedIsReleased ==
    (pc = "Stopped" /\ StopRequested) =>
        /\ client \notin connected \/ discTask = client
        /\ openPorts = {}

\* C3: after a single stop() during Streaming, with the session connected
\* at that moment, when the loop has reached Stopped, disconnect() has been
\* invoked exactly once in total.
C3_DisconnectOnce ==
    (pc = "Stopped" /\ stopPc = "Streaming" /\ stopLive /\ stopCalls = 1) =>
        disconnectCalls = 1

\* C4: with auto-reconnect disabled, after any failure the run loop is
\* Stopped: it does not scan again.
C4_NoReconnectStops ==
    (~auto_reconnect /\ Failures > 0) => pc = "Stopped"

\* C5: the run loop terminates only after an explicit stop request; no
\* failure ends it.
C5_EndsOnlyOnStop == pc = "Stopped" => StopRequested

\* three cycles have failed in three different ways and the loop goes on
C5_Witness ==
    /\ ~StopRequested
    /\ pc # "Stopped"
    /\ fails["not_found"] > 0
    /\ fails["connect_failed"] > 0
    /\ fails["subscribe_failed"] + fails["dropped"] > 0

\* C6: with auto-reconnect enabled and no stop request, a new scan cycle
\* starts only after a failed cycle and exactly one backoff delay, there is
\* never a second delay, and every failed cycle is eventually followed by
\* a new scan (as long as the model lets a cycle start).
C6_OneBackoffThenScan ==
    /\ [](auto_reconnect /\ ~StopRequested => gap <= 1)
    /\ [][(auto_reconnect /\ stopCalls' = 0 /\ cycle >= 1 /\ cycle' = cycle + 1)
            => (gap = 1 /\ outcome \in FailureKinds)]_vars
    /\ (auto_reconnect /\ outcome \in FailureKinds /\ cycle < MaxCycles)
          ~> ((pc = "Scanning" /\ outcome = "running") \/ StopRequested)

\* the scan that follows a transport drop and its delay
C6_Witness ==
    /\ auto_reconnect /\ ~StopRequested
    /\ pc = "Scanning" /\ attempt = 0 /\ cycle >= 2
    /\ fails["dropped"] > 0 /\ fails["not_found"] > 0

C8_ScanThenConnect ==
    /\ [](/\ scans <= 3
          /\ connects <= 1
          /\ (connects >= 1 => device)
          /\ (device => pc \notin {"Scanning", "ScanPause"})
          /\ (device => connects = 1)
          /\ (outcome = "not_found" => pc \in {"BackoffRetry", "Stopped"}))
    /\ [][fails'["not_found"] > fails["not_found"]
            => (scans = 3 /\ connects = 0 /\ ~device)]_vars

\* the third scan of a cycle found the device and the client connects
C8_Witness == pc = "Connecting" /\ scans = 3 /\ connects = 1 /\ device

(* ---- the payload pipeline ---------------------------------------------- *)
IsDataByte(b) == b < 128
StatusPositions(c) == {i \in 1..Len(c) : IsStatusByte(c[i])}
SetMin(T) == CHOOSE x \in T : \A y \in T : x <= y
\* the message that starts at status position p of c: the status byte and
\* the data bytes up to the next status byte or the end of c
MessageAt(c, p) ==
    LET end == SetMin({q \in StatusPositions(c) : q > p} \cup {Len(c) + 1})
    IN <<c[p]>> \o SelectSeq(SubSeq(c, p + 1, end - 1), IsDataByte)
NthStatus(c, k) ==
    CHOOSE p \in StatusPositions(c) :
        Cardinality({q \in StatusPositions(c) : q <= p}) = k
Delimited(c, out) ==
    /\ Len(out) = Cardinality(StatusPositions(c))
    /\ \A k \in 1..Len(out) : out[k] = MessageAt(c, NthStatus(c, k))

IsValid3(m) ==
    /\ Len(m) = 3
    /\ IsStatusByte(m[1]) /\ IsDataByte(m[2]) /\ IsDataByte(m[3])

\* C9: a valid 3-byte message delivered in two consecutive payloads sends
\* the same events to the sink as when it is delivered in one payload.
C9_SplitReconstructed ==
    (IsValid3(input) /\ cut \in 1..2 /\ fed = 2) =>
        sinkLog = ProcessAll(midi_data_handler(input))

\* C10 as stated: every payload is delimited at its status bytes.
C10_DelimitsEveryChunk == fed >= 1 => Delimited(chunk, emitted)

\* C10 (amended): a payload of at least 3 bytes yields one message per
\* status byte, in order, each the status byte and the data bytes up to the
\* next status byte or the end; leading data bytes are discarded and the
\* last message is emitted whatever its length.  A payload shorter than 3
\* bytes yields nothing.
C10_DelimitsLongChunk ==
    fed >= 1 =>
        IF Len(chunk) >= 3 THEN Delimited(chunk, emitted) ELSE emitted = <<>>

\* leading data byte, a truncated message, and a last message of one byte
C10_Witness ==
    /\ fed >= 1 /\ Len(chunk) = 4
    /\ IsDataByte(chunk[1])
    /\ emitted = <<<<chunk[2], chunk[3]>>, <<chunk[4]>>>>

(* ---- translation -------------------------------------------------------- *)
SupportedTypes == {128, 144, 176, 224}

\* the event the translation is specified to produce for a 3-byte message
ExpectedEvent(m) ==
    IF MessageType(m) = 128
    THEN [type |-> "note_off", note |-> m[2], velocity |-> m[3]]
    ELSE IF MessageType(m) = 144
    THEN [type |-> "note_on", note |-> m[2], velocity |-> m[3]]
    ELSE IF MessageType(m) = 176
    THEN [type |-> "control_change", control |-> m[2], value |-> m[3]]
    ELSE [type |-> "pitchwheel", pitch |-> m[3] * 128 + m[2]]

\* C11: a payload that is one message of 3 bytes with high nibble 0x80,
\* 0x90, 0xB0 or 0xE0 sends the corresponding event with the data bytes as
\* fields and reports it; a message of another type or of fewer than 3
\* bytes sends nothing to the sink and reports no activity.
C11_TranslateTotal ==
    (fed = 1 /\ Len(emitted) = 1) =>
        LET m == emitted[1] IN
        IF Len(m) = 3 /\ MessageType(m) \in SupportedTypes
        THEN sinkLog = <<ExpectedEvent(m)>> /\ Len(activityLog) = 1
        ELSE (Len(m) < 3 \/ MessageType(m) \notin SupportedTypes)
                => (sinkLog = <<>> /\ activityLog = <<>>)

\* C12: for all lsb, msb in 0..127 the payload [0xE0, lsb, msb] sends a
\* pitch bend event of value msb*128 + lsb to the sink.
C12_PitchBendRange ==
    (fed = 1 /\ chunk \in PitchInputs) =>
        sinkLog = <<[type |-> "pitchwheel",
                     pitch |-> chunk[3] * 128 + chunk[2]]>>

\* C17: an event is sent only for a delimited message of exactly 3 bytes:
\* the events of a payload are those of its 3-byte messages, longer
\* messages are dropped.
IsThreeBytes(m) == Len(m) = 3
C17_OnlyThreeByteMessages ==
    fed = 1 => sinkLog = ProcessAll(SelectSeq(emitted, IsThreeBytes))

\* C18: the early return for payloads shorter than 3 bytes suppresses no
\* event: what reaches the sink is what delimiting every payload at its
\* status bytes, with no length check, and translating each message gives.
C18_EarlyReturnHarmless ==
    /\ fed = 1 => sinkLog = ProcessAll(ScanBytes(chunk, 1, <<>>, <<>>))
    /\ fed = 2 =>
          sinkLog = ProcessAll(ScanBytes(SubSeq(input, 1, cut), 1, <<>>, <<>>))
                    \o ProcessAll(ScanBytes(chunk, 1, <<>>, <<>>))

\* a payload of a status byte and one data byte took the early return
C18_Witness ==
    /\ fed = 1 /\ Len(chunk) = 2
    /\ IsStatusByte(chunk[1]) /\ IsDataByte(chunk[2])
    /\ emitted = <<>> /\ sinkLog = <<>>

(* ---- notifications while the run loop runs ------------------------------ *)
KeptIndices(n, failing) == {i \in 1..n : i \notin failing}
\* the messages of msgs whose send did not fail, in order
ExpectedWritten(msgs, failing) ==
    LET idx == KeptIndices(Len(msgs), failing) IN
    [k \in 1..Cardinality(idx) |->
        msgs[CHOOSE i \in idx : Cardinality({j \in idx : j <= i}) = k]]

\* C13: a notification in which a sink write fails changes nothing of the
\* connection (run loop position, session, stop flag, backoff count), and
\* every message of that payload and of a payload that follows a failure is
\* still processed: each one is reported as activity and each one whose own
\* write did not fail reaches the port.
C13_SinkFailureIsolated ==
    [][(midiObs' # midiObs /\ (writeFailed' # {} \/ writeFailed # {})) =>
          /\ UNCHANGED <<pc, is_connected, connected, subscribed,
                         should_reconnect, backoffCount, outcome>>
          /\ activityLog' = Activities(ProcessAll(ScanBytes(chunk', 1, <<>>, <<>>)))
          /\ (current_port \in openPorts =>
                sinkLog' = ExpectedWritten(
                              ProcessAll(ScanBytes(chunk', 1, <<>>, <<>>)),
                              writeFailed'))]_vars

\* the first write of a payload failed and the second one reached the port
C13_Witness ==
    /\ pc = "Streaming" /\ client \in subscribed /\ ~StopRequested
    /\ writeFailed = {1}
    /\ Len(activityLog) = 2
    /\ sinkLog = <<[type |-> "note_off", note |-> 5, velocity |-> 127]>>

\* C15: a notification that arrives after a stop request writes nothing to
\* the sink and reports no activity.
C15_NoProcessingAfterStop ==
    [][(StopRequested /\ midiObs' # midiObs) =>
          (sinkLog' = <<>> /\ activityLog' = <<>>)]_vars

(* ---- the connection, continued ------------------------------------------ *)
Reported(m) == \E i \in 1..Len(stepStatus) : stepStatus[i] = St(m)

\* C14: when open_port fails after a successful connect the failure is
\* reported and the cycle goes on: the run loop awaits the subscription
\* with is_connected set and the cycle is not counted as failed.
C14_PortFailureKeepsSession ==
    Reported("port_fail") =>
        (pc = "Subscribing" /\ is_connected /\ client # 0
         /\ outcome = "running")

\* the first cycle streams although its port could not be opened
C14_Witness ==
    /\ pc = "Streaming" /\ cycle = 1 /\ ~StopRequested
    /\ midi_port_name /\ current_port = 0
    /\ client \in connected /\ client \in subscribed

\* the states of the connection state machine
Phase(p) ==
    IF p = "ScanPause" THEN "Scanning"
    ELSE IF p \in {"Unsubscribing", "Disconnecting"} THEN "Disconnecting"
    ELSE IF IsBackoff(p) THEN "Backoff"
    ELSE p

\* C16: every transition of the connection state machine, the transitions
\* into Stopped included, emits a status message.
C16_EveryTransitionReports ==
    [][Phase(pc') # Phase(pc) => stepStatus' # <<>>]_vars

\* C19: at every moment at most one client created by the bridge is
\* connected.
C19_OneSession == Cardinality(connected) <= 1

\* C20: current_port is None or a port that is open.
C20_PortOpenOrNone == current_port = 0 \/ current_port \in openPorts

(* ---- the window ---------------------------------------------------------- *)
\* C21: across any sequence of Start and Stop presses at most one bridge
\* run loop is active at a time.
C21_OneRunLoop == Cardinality(ActiveRunLoops) <= 1

TypeOK ==
    /\ should_reconnect \in BOOLEAN /\ auto_reconnect \in BOOLEAN
    /\ is_connected \in BOOLEAN /\ midi_port_name \in BOOLEAN
    /\ client \in 0..MaxCycles
    /\ pc \in {"Idle", "Scanning", "ScanPause", "Connecting", "Subscribing",
               "Streaming", "Unsubscribing", "Disconnecting", "BackoffRetry",
               "BackoffReconnect", "Stopped"}
    /\ outcome \in Outcomes
    /\ connected \subseteq 1..MaxCycles /\ subscribed \subseteq connected

====
